---- MODULE Spec2Model ----
(***************************************************************************)
(* munti-crime-map: the root navigation shell (RootLayout), the Tailwind   *)
(* style configuration, and the flows the guidance document gives as code: *)
(* the real-time subscription effect, the two crime_records queries, the   *)
(* location permission flow and the loading / error handling flow.         *)
(***************************************************************************)
EXTENDS Integers, Sequences, FiniteSets

\* ------------------------------------------------------------------ bounds

\* How many times RootLayout is rendered.
MaxRenders == 6
\* How many component instances use the subscription effect.
NumComponents == 2
\* How many postgres_changes events the backend broadcasts.
MaxEvents == 3
\* How many rows the crime_records table may hold.
MaxRows == 2

Components == 1..NumComponents

\* Channel objects the realtime client can hand out; one per component is
\* what a leak-free program needs, a second one each makes a leak visible.
ChannelIds == 1..(2 * NumComponents)

Visibilities == {"public", "private"}

\* A row of crime_records: CrimeRecord (lines 166-172), of which the flows
\* read only the key, with the visibility column the filtered query and the
\* project rules speak of.
Rows == [id : 1..MaxRows, visibility : Visibilities]

\* The tables the backend may hold: id is the primary key.
Tables == {t \in SUBSET Rows : \A r, q \in t : r.id = q.id => r = q}

\* Messages carried by a backend error or a thrown Error.
Messages == {"permission denied for table crime_records"}

PermissionStatuses == {"granted", "denied", "undetermined"}

VARIABLES
    renders,            \* number of RootLayout renders so far
    stack,              \* screens registered by the latest render of RootLayout
    configLoaded,       \* the build has read tailwind.config.js
    styleConfig,        \* the configuration the build holds
    mounted,            \* mounted[c]: component c is mounted
    channels,           \* channels live in the realtime client
    effectChannel,      \* effectChannel[c]: the `channel` const of c's effect closure (0: none)
    events,             \* postgres_changes events broadcast so far
    handlerRuns,        \* handlerRuns[c]: runs of the update handler c registered
    table,              \* rows of crime_records in the backend
    publicFetched,      \* the filtered query of section 5 has resolved
    publicData,         \* its `data`
    fetchPc,            \* position of the section 10 fetch flow
    response,           \* what the awaited query settled with
    isLoading,          \* useState(true)
    error,              \* useState<string | null>(null): <<>> is null, <<m>> is the string m
    crimes,             \* useState<CrimeRecord[]>([]), the records on display
    crimesWrites,       \* calls of setCrimes
    errorWrites,        \* calls of setError
    permPc,             \* position of the permission flow
    locationStatus,     \* `status` of the location request ("none" before it resolves)
    alerts,             \* alerts shown, oldest first
    notificationStatus  \* `status` of the notification request ("none" before it resolves)

shellVars == <<renders, stack, configLoaded, styleConfig>>
subscriptionVars == <<mounted, channels, effectChannel, events, handlerRuns>>
fetchVars == <<table, publicFetched, publicData, fetchPc, response, isLoading,
               error, crimes, crimesWrites, errorWrites>>
permissionVars == <<permPc, locationStatus, alerts, notificationStatus>>
vars == <<shellVars, subscriptionVars, fetchVars, permissionVars>>

\* ------------------------------------------------- RootLayout (lines 501-507)

\* A mutation of RootLayout: the screen keeps its header.
RootLayoutWithHeader == {[name |-> "index", headerShown |-> TRUE]}

\* The <Stack.Screen> children of the <Stack> RootLayout returns.  The
\* function takes no props and reads no state.
RootLayout == {[name |-> "index", headerShown |-> FALSE]}

Render ==
    /\ renders < MaxRenders
    /\ renders' = renders + 1
    /\ stack' = RootLayout
    /\ UNCHANGED <<configLoaded, styleConfig, subscriptionVars, fetchVars, permissionVars>>

\* ------------------------------------------- tailwind.config.js (lines 2-20)

\* A mutation of the configuration: safe reuses the colour of danger.
module_exports_same_colour ==
    [content |-> << "./App.{js,jsx,ts,tsx}",
                    "./app/**/*.{js,jsx,ts,tsx}",
                    "./components/**/*.{js,jsx,ts,tsx}" >>,
     presets |-> << "nativewind/preset" >>,
     colors  |-> { [token |-> "danger",  value |-> "#dc2626"],
                   [token |-> "warning", value |-> "#f59e0b"],
                   [token |-> "safe",    value |-> "#dc2626"] },
     plugins |-> << >>]

\* module.exports; theme.extend.colors is the set of its token/value pairs.
module_exports ==
    [content |-> << "./App.{js,jsx,ts,tsx}",
                    "./app/**/*.{js,jsx,ts,tsx}",
                    "./components/**/*.{js,jsx,ts,tsx}" >>,
     presets |-> << "nativewind/preset" >>,
     colors  |-> { [token |-> "danger",  value |-> "#dc2626"],
                   [token |-> "warning", value |-> "#f59e0b"],
                   [token |-> "safe",    value |-> "#10b981"] },
     plugins |-> << >>]

\* What the build holds before it has read the file.
EmptyConfig == [content |-> << >>, presets |-> << >>, colors |-> {}, plugins |-> << >>]

LoadConfig ==
    /\ ~configLoaded
    /\ configLoaded' = TRUE
    /\ styleConfig' = module_exports
    /\ UNCHANGED <<renders, stack, subscriptionVars, fetchVars, permissionVars>>

\* ------------------------- real-time subscription effect (lines 201-216)

\* The channel object supabase.channel(...) creates: a fresh identity.
FreshChannel == CHOOSE id \in ChannelIds : \A ch \in channels : ch.id # id

\* The effect body: supabase.channel("crime_updates").on("postgres_changes",
\* {...}, handler).subscribe(), kept in the const `channel`.
SubscribeEffect(c) ==
    /\ channels' = channels \cup
            {[id |-> FreshChannel, topic |-> "crime_updates", owner |-> c]}
    /\ effectChannel' = [effectChannel EXCEPT ![c] = FreshChannel]

\* A mutation of the cleanup: the effect returns nothing, the listener is
\* never unsubscribed.
EffectCleanupForgotten(c) ==
    /\ channels' = channels
    /\ effectChannel' = [effectChannel EXCEPT ![c] = 0]

\* The function the effect returns: supabase.removeChannel(channel).
EffectCleanup(c) ==
    /\ channels' = {ch \in channels : ch.id # effectChannel[c]}
    /\ effectChannel' = [effectChannel EXCEPT ![c] = 0]

\* The dependency list is []: the effect runs once, when c mounts.
Mount(c) ==
    /\ ~mounted[c]
    /\ \E id \in ChannelIds : \A ch \in channels : ch.id # id
    /\ mounted' = [mounted EXCEPT ![c] = TRUE]
    /\ SubscribeEffect(c)
    /\ UNCHANGED <<events, handlerRuns, shellVars, fetchVars, permissionVars>>

\* React runs the cleanup of a [] effect when c unmounts.
Unmount(c) ==
    /\ mounted[c]
    /\ mounted' = [mounted EXCEPT ![c] = FALSE]
    /\ EffectCleanup(c)
    /\ UNCHANGED <<events, handlerRuns, shellVars, fetchVars, permissionVars>>

\* The backend broadcasts a change of crime_records: the client calls the
\* handler of every live channel that listens to it, once per channel.
PostgresChange ==
    /\ events < MaxEvents
    /\ events' = events + 1
    /\ handlerRuns' = [c \in Components |->
            handlerRuns[c] + Cardinality({ch \in channels : ch.owner = c})]
    /\ UNCHANGED <<mounted, channels, effectChannel, shellVars, fetchVars, permissionVars>>

\* ------------------------------ the filtered query, section 5 (lines 195-198)

\* .from("crime_records").select("*").eq(column, value)
SelectEq(t, column, value) ==
    IF column = "visibility" THEN {r \in t : r.visibility = value} ELSE {}

\* .from("crime_records").select("*")
SelectAll(t) == t

\* The query resolves into the consts data, error, isLoading; no state
\* setter is called with them.
FetchPublic ==
    /\ ~publicFetched
    /\ publicFetched' = TRUE
    /\ publicData' = SelectEq(table, "visibility", "public")
    /\ UNCHANGED <<table, fetchPc, response, isLoading, error, crimes, crimesWrites,
                   errorWrites, shellVars, subscriptionVars, permissionVars>>

\* -------------------- loading and error handling, section 10 (lines 314-328)

Null == << >>

NoResponse == [kind |-> "none", data |-> {}, isError |-> FALSE, message |-> ""]

\* What the awaited query can settle with: it resolves with data and a null
\* error, resolves with an error and no data, or rejects.  The error and the
\* rejection reason are instances of Error or not.
Responses(t) ==
    {[kind |-> "data", data |-> SelectAll(t), isError |-> FALSE, message |-> ""]}
    \cup [kind : {"error", "thrown"}, data : {{}}, isError : BOOLEAN, message : Messages]

\* try { await supabase.from("crime_records").select("*") ...: the request
\* is sent and the flow suspends.
FetchStart ==
    /\ fetchPc = "start"
    /\ fetchPc' = "awaiting"
    /\ UNCHANGED <<table, publicFetched, publicData, response, isLoading, error, crimes,
                   crimesWrites, errorWrites, shellVars, subscriptionVars, permissionVars>>

\* The backend answers, or the request fails.
FetchSettle ==
    /\ fetchPc = "awaiting"
    /\ \E r \in Responses(table) : response' = r
    /\ fetchPc' = "settled"
    /\ UNCHANGED <<table, publicFetched, publicData, isLoading, error, crimes,
                   crimesWrites, errorWrites, shellVars, subscriptionVars, permissionVars>>

\* err instanceof Error ? err.message : "An error occurred"
ErrorMessage(r) == IF r.isError THEN r.message ELSE "An error occurred"

\* A mutation of the try body: the data is displayed without looking at the
\* returned error.
TryBodyIgnoresError(r) ==
    /\ crimes' = r.data
    /\ crimesWrites' = crimesWrites + 1
    /\ UNCHANGED <<error, errorWrites>>

\* The try body after the await, with the catch clause: a rejection and a
\* returned error (if (error) throw error) both reach setError; data with a
\* null error reaches setCrimes.
TryBody(r) ==
    IF r.kind = "data"
    THEN /\ crimes' = r.data
         /\ crimesWrites' = crimesWrites + 1
         /\ UNCHANGED <<error, errorWrites>>
    ELSE /\ error' = <<ErrorMessage(r)>>
         /\ errorWrites' = errorWrites + 1
         /\ UNCHANGED <<crimes, crimesWrites>>

\* A mutation of the finally clause: the flag is cleared in the try body
\* only, so a failed fetch leaves it set.
FinallyOnSuccessOnly(r) == isLoading' = (r.kind # "data")

\* finally { setIsLoading(false) }
Finally(r) == isLoading' = FALSE

\* The continuation of the await: try body, catch, finally, in one turn of
\* the event loop.
FetchContinue ==
    /\ fetchPc = "settled"
    /\ TryBody(response)
    /\ Finally(response)
    /\ fetchPc' = "done"
    /\ UNCHANGED <<table, publicFetched, publicData, response,
                   shellVars, subscriptionVars, permissionVars>>

\* What the component returns (lines 327-328, and the map of section 8).
Shows ==
    IF isLoading THEN "ActivityIndicator"
    ELSE IF error # Null THEN "ErrorMessage"
    ELSE "crimes"

\* ------------------------------------- permission flow (lines 245-252)

\* Location.requestForegroundPermissionsAsync() is called and awaited.
RequestLocation ==
    /\ permPc = "start"
    /\ permPc' = "awaitLocation"
    /\ UNCHANGED <<locationStatus, alerts, notificationStatus,
                   shellVars, subscriptionVars, fetchVars>>

\* A mutation of the guard: the alert is shown but the flow goes on.
AfterLocationNoReturn(status) ==
    /\ alerts' = IF status # "granted" THEN Append(alerts, "Permission denied") ELSE alerts
    /\ permPc' = "awaitNotifications"

\* The flow after the location request resolved with `status`: the guard of
\* lines 246-249, then Notifications.requestPermissionsAsync() is called.
AfterLocation(status) ==
    IF status # "granted"
    THEN /\ alerts' = Append(alerts, "Permission denied")
         /\ permPc' = "returned"
    ELSE /\ alerts' = alerts
         /\ permPc' = "awaitNotifications"

LocationResolves ==
    /\ permPc = "awaitLocation"
    /\ \E status \in PermissionStatuses :
        /\ locationStatus' = status
        /\ AfterLocation(status)
    /\ UNCHANGED <<notificationStatus, shellVars, subscriptionVars, fetchVars>>

NotificationsResolve ==
    /\ permPc = "awaitNotifications"
    /\ \E status \in PermissionStatuses : notificationStatus' = status
    /\ permPc' = "done"
    /\ UNCHANGED <<locationStatus, alerts, shellVars, subscriptionVars, fetchVars>>

\* ---------------------------------------------------------- specifications

Init ==
    /\ renders = 0
    /\ stack = {}
    /\ configLoaded = FALSE
    /\ styleConfig = EmptyConfig
    /\ mounted = [c \in Components |-> FALSE]
    /\ channels = {}
    /\ effectChannel = [c \in Components |-> 0]
    /\ events = 0
    /\ handlerRuns = [c \in Components |-> 0]
    /\ table \in Tables
    /\ publicFetched = FALSE
    /\ publicData = {}
    /\ fetchPc = "start"
    /\ response = NoResponse
    /\ isLoading = TRUE
    /\ error = Null
    /\ crimes = {}
    /\ crimesWrites = 0
    /\ errorWrites = 0
    /\ permPc = "start"
    /\ locationStatus = "none"
    /\ alerts = << >>
    /\ notificationStatus = "none"

\* The navigation shell, the build configuration and the permission flow.
ShellNext ==
    \/ Render
    \/ LoadConfig
    \/ RequestLocation
    \/ LocationResolves
    \/ NotificationsResolve

\* The real-time subscription of the mounted components.
SubscriptionNext ==
    \/ \E c \in Components : Mount(c)
    \/ \E c \in Components : Unmount(c)
    \/ PostgresChange

\* The two queries of crime_records.
FetchNext ==
    \/ FetchPublic
    \/ FetchStart
    \/ FetchSettle
    \/ FetchContinue

Next == ShellNext \/ SubscriptionNext \/ FetchNext

\* The whole program.  Its three parts share no variable, so each is
\* checked on its own: a behaviour of Spec projects onto a behaviour of each.
Spec == Init /\ [][Next]_vars

ShellSpec == Init /\ [][ShellNext]_vars

SubscriptionSpec == Init /\ [][SubscriptionNext]_vars

FetchSpec == Init /\ [][FetchNext]_vars

\* The event loop runs the continuation of a settled promise.
FairFetchSpec == FetchSpec /\ WF_vars(FetchContinue)

\* ------------------------------------------------------------- properties

\* C1: every render of RootLayout, whatever the number of renders before
\* it, leaves a Stack with exactly one screen, "index", whose header is not
\* shown.
RootLayoutRegistersIndexOnly ==
    renders > 0 =>
        /\ Cardinality(stack) = 1
        /\ \A screen \in stack : screen.name = "index" /\ screen.headerShown = FALSE

RootLayoutRenderedAgain == renders >= 2 /\ \E screen \in stack : screen.name = "index"

\* C2: the style configuration lists the three content-scan paths, App,
\* app/** and components/**, extends the theme with exactly the colour
\* tokens danger, warning and safe, each with a value of its own, and has
\* no plugin.
StyleConfigThreeTokens ==
    configLoaded =>
        /\ styleConfig.content = << "./App.{js,jsx,ts,tsx}",
                                    "./app/**/*.{js,jsx,ts,tsx}",
                                    "./components/**/*.{js,jsx,ts,tsx}" >>
        /\ {c.token : c \in styleConfig.colors} = {"danger", "warning", "safe"}
        /\ Cardinality(styleConfig.colors) = 3
        /\ Cardinality({c.value : c \in styleConfig.colors}) = 3
        /\ styleConfig.plugins = << >>

StyleConfigRead ==
    configLoaded /\ \E c \in styleConfig.colors : c.token = "danger"

MountedComponents == {c \in Components : mounted[c]}

\* Every mounted component owns one live channel, on "crime_updates", the
\* one its effect closure holds, and there is no other live channel.
LiveChannelsMatchMounted ==
    /\ Cardinality(channels) = Cardinality(MountedComponents)
    /\ \A ch \in channels :
        /\ ch.topic = "crime_updates"
        /\ mounted[ch.owner]
        /\ effectChannel[ch.owner] = ch.id
    /\ \A c \in MountedComponents : \E ch \in channels : ch.owner = c

\* A step in which the update handler of c runs is a step in which c is
\* mounted, and the handler runs once.
HandlersOnlyForMounted ==
    \A c \in Components :
        handlerRuns'[c] # handlerRuns[c] =>
            mounted[c] /\ mounted'[c] /\ handlerRuns'[c] = handlerRuns[c] + 1

\* C3: the "crime_updates" channel is subscribed once when a component
\* mounts and that channel is removed when it unmounts: after any sequence
\* of mounts and unmounts the live channels are those of the mounted
\* components, one each, and no update handler runs for an unmounted one.
SubscriptionsCleanedUp ==
    []LiveChannelsMatchMounted /\ [][HandlersOnlyForMounted]_vars

\* A component whose handler has run is unmounted, and a later event has
\* reached a mounted one only.
UpdateAfterUnmount ==
    \E c, d \in Components :
        /\ ~mounted[c] /\ handlerRuns[c] > 0
        /\ mounted[d] /\ handlerRuns[d] > handlerRuns[c]

\* C4: every crime record a fetch places into the displayed crimes state
\* has visibility "public".
OnlyPublicCrimesDisplayed == \A r \in crimes : r.visibility = "public"

\* C5: the location permission request completes before any later step of
\* the flow, and a status other than "granted" shows an alert and returns
\* without a later step.
PermissionRequestedFirst ==
    /\ permPc \in {"start", "awaitLocation"} =>
            locationStatus = "none" /\ alerts = << >> /\ notificationStatus = "none"
    /\ permPc \in {"awaitNotifications", "done"} =>
            locationStatus = "granted" /\ alerts = << >>
    /\ locationStatus \notin {"none", "granted"} =>
            /\ alerts = << "Permission denied" >>
            /\ permPc = "returned"
            /\ notificationStatus = "none"
    /\ permPc = "returned" => locationStatus \notin {"none", "granted"}

PermissionDenied == locationStatus = "denied" /\ permPc = "returned"

\* C6: isLoading starts true and is cleared when the fetch attempt has
\* finished, on success, on a returned error and on a thrown exception: the
\* loading indicator is shown all the time the fetch is in flight, and once
\* the request has settled it is eventually no longer shown.
LoadingClearedAfterFetch ==
    /\ [](fetchPc # "done" => isLoading /\ Shows = "ActivityIndicator")
    /\ [](fetchPc = "done" => ~isLoading /\ Shows # "ActivityIndicator")
    /\ (fetchPc = "settled" ~> Shows # "ActivityIndicator")

FailedFetchFinished ==
    fetchPc = "done" /\ response.kind = "thrown" /\ Shows = "ErrorMessage"

\* C7: a failed fetch, by a returned error or a thrown exception, sets the
\* error state to a message and leaves crimes as it was; a successful fetch
\* sets crimes to the returned data and leaves error null; one attempt
\* writes exactly one of the two, once.
FetchWritesOne ==
    /\ fetchPc # "done" =>
            crimes = {} /\ error = Null /\ crimesWrites = 0 /\ errorWrites = 0
    /\ fetchPc = "done" /\ response.kind = "data" =>
            /\ crimes = response.data /\ crimesWrites = 1
            /\ error = Null /\ errorWrites = 0
    /\ fetchPc = "done" /\ response.kind # "data" =>
            /\ Len(error) = 1 /\ errorWrites = 1
            /\ response.isError => error = << response.message >>
            /\ crimes = {} /\ crimesWrites = 0

ReturnedErrorHandled ==
    fetchPc = "done" /\ response.kind = "error" /\ error = << "An error occurred" >>

====
